---- MODULE Spec2Model ----
(***************************************************************************)
(* Model of src/index.js: a canvas particle field.  Particles drift, are   *)
(* attracted by the cursor, bounce off the canvas edges, pulse in size and *)
(* are linked to near neighbours through a 120x120 bucket grid.            *)
(*                                                                         *)
(* Numbers.  JavaScript numbers are doubles; here every position, speed,   *)
(* size and opacity is an integer count of thousandths (K = 1000), and a   *)
(* multiplication by a decimal factor truncates toward zero.  A result of  *)
(* Math.random() is an integer r in 0..R-1 standing for r/R.  cos and sin  *)
(* of a random angle are read from a 16-sector table.                      *)
(***************************************************************************)
EXTENDS Integers, Sequences, FiniteSets, TLC

VARIABLES
  canvas,        \* [width, height] of the drawing surface, in pixels
  particles,     \* the particle collection (index.js:13), a sequence
  mouse,         \* the closure variable `state` of the mouse object
  frameCount,    \* index.js:37
  pending,       \* number of animate callbacks requested and not yet run
  rng,           \* state of the generator behind Math.random()
  nextId,        \* number of Particle objects allocated so far
  trace,         \* calls and drawing operations of the last animate/connect
  numParticles,  \* value returned by the last adjustParticleCount() call
  mid,           \* the particle right after index.js:109 in the last update
  updates,       \* history: update calls made on the particle under study
  outRun,        \* history: consecutive updates that ended outside, per axis
  budget,        \* how many more pointer events, resizes and frames the
                 \* environment delivers (-1: no limit)
  ticks,         \* history: animate runs completed
  event          \* history: the handler that ran last

vars == <<canvas, particles, mouse, frameCount, pending, rng, nextId, trace,
          numParticles, mid, updates, outRun, budget, ticks, event>>

----------------------------------------------------------------------------
(* Arithmetic *)

K == 10 * 10 * 10          \* thousandths per unit
R == 2 ^ 10                \* resolution of a Math.random() result
\* a cursor coordinate is null or a number; the number v is held as <<v>>
NULL == << >>
Num(v) == << v >>
Val(c) == c[1]

Min(a, b) == IF a < b THEN a ELSE b
Max(a, b) == IF a > b THEN a ELSE b

\* a / b truncated toward zero (b > 0)
TDiv(a, b) == IF a >= 0 THEN a \div b ELSE -((-a) \div b)

\* Math.floor(a / b) for b > 0
Floor(a, b) == a \div b

\* Math.sqrt on non-negative integers, rounded down
RECURSIVE SqrtIter(_, _, _)
SqrtIter(n, lo, hi) ==
  IF lo >= hi THEN lo
  ELSE LET m == (lo + hi + 1) \div 2
       IN IF m * m <= n THEN SqrtIter(n, m, hi) ELSE SqrtIter(n, lo, m - 1)
Sqrt(n) == SqrtIter(n, 0, IF n < 2 ^ 20 THEN 2 ^ 10 ELSE 2 ^ 15)

\* Math.cos(2 pi r / R) and Math.sin(2 pi r / R) in thousandths
CosTable == << 1000, 924, 707, 383, 0, -383, -707, -924,
               -1000, -924, -707, -383, 0, 383, 707, 924 >>
Cos(r) == CosTable[((r * 16) \div R) + 1]
Sin(r) == CosTable[((((r * 16) \div R) + 12) % 16) + 1]

\* Math.random(): the generator's state counts the calls made; the k-th
\* result is the top ten bits of a 16-bit Weyl sequence
NextRng(s) == s + 1
RandOf(s) == ((s * 25173 + 13849) % (2 ^ 16)) \div (2 ^ 6)

----------------------------------------------------------------------------
(* index.js:19-35  the mouse object *)

mouseInit == [x |-> NULL, y |-> NULL]

mouseSetHalf(st, e) == [st EXCEPT !.x = e.x]
mouseSet(st, e) == [x |-> e.x, y |-> e.y]

mouseReset(st) == [x |-> NULL, y |-> NULL]

autoDrift == TRUE

----------------------------------------------------------------------------
(* index.js:40-65  adjustParticleCount *)

heightConditions == <<200, 300, 400, 500, 600>>
widthConditions == <<450, 600, 900, 1200, 1600>>
particlesForHeight == <<40, 60, 70, 90, 110>>
particlesForWidth == <<40, 50, 70, 90, 110>>
defaultParticles == 130

\* the index at which a threshold loop breaks, 0 if it runs to the end
RECURSIVE FirstBelow(_, _, _)
FirstBelow(v, conds, i) ==
  IF i > Len(conds) THEN 0
  ELSE IF v < conds[i] THEN i
  ELSE FirstBelow(v, conds, i + 1)

adjustNoClamp(cv) ==
  LET ih == FirstBelow(cv.height, heightConditions, 1)
  IN IF ih = 0 THEN defaultParticles ELSE particlesForHeight[ih]

adjustParticleCount(cv) ==
  LET ih == FirstBelow(cv.height, heightConditions, 1)
      iw == FirstBelow(cv.width, widthConditions, 1)
      n1 == IF ih = 0 THEN defaultParticles ELSE particlesForHeight[ih]
  IN IF iw = 0 THEN n1 ELSE Min(n1, particlesForWidth[iw])

----------------------------------------------------------------------------
(* index.js:67-128  class Particle *)

\* constructor(x, y, isFirework); r is the record of the six Math.random()
\* results in call order: speed, angle of vx, angle of vy, size, gray, dir
Particle(id, x, y, isFirework, r) ==
  LET baseSpeed == IF isFirework THEN (r.speed * 2 * K) \div R + K
                   ELSE (r.speed * 500) \div R + 300
  IN [ id |-> id,
       isFirework |-> isFirework,
       x |-> x,
       y |-> y,
       vx |-> TDiv(Cos(r.ax) * baseSpeed, K),
       vy |-> TDiv(Sin(r.ay) * baseSpeed, K),
       size |-> IF isFirework THEN (r.size * 2 * K) \div R + 2 * K
                ELSE (r.size * 3 * K) \div R + K,
       gray |-> (r.gray * 255 * K) \div R,
       alpha |-> K,
       sizeDirection |-> IF r.dir < R \div 2 THEN -1 ELSE 1,
       trail |-> << >> ]

attractRange == 22500
alphaStep == 20
sizeStep == 100
sizeMax == 4000
sizeMin == 1000

\* index.js:86  squared distance to the cursor, in hundredths of px^2
distTo(p, m) ==
  IF m.x # NULL
  THEN LET dx == TDiv(Val(m.x) * K - p.x, 100)
           dy == TDiv(Val(m.y) * K - p.y, 100)
       IN dx * dx + dy * dy
  ELSE 0

\* index.js:88-106  forces on an ambient particle, decay of a firework;
\* j1, j2 are the Math.random() results of lines 92 and 93
applyForces(p, m, j1, j2) ==
  LET dist == distTo(p, m)
  IN IF ~p.isFirework
     THEN LET force == IF dist # 0 /\ dist < attractRange * 100
                       THEN (attractRange * 100 - dist) \div (attractRange \div 10)
                       ELSE 0
              drift == m.x = NULL /\ autoDrift
              vx1 == IF drift THEN p.vx + TDiv((j1 - R \div 2) * 30, R) ELSE p.vx
              vy1 == IF drift THEN p.vy + TDiv((j2 - R \div 2) * 30, R) ELSE p.vy
              sq == IF force # 0 THEN Sqrt(dist) ELSE 1
              pullx == IF force # 0
                       THEN TDiv(TDiv(TDiv(Val(m.x) * K - p.x, 100) * K, sq) * force, 10 * K)
                       ELSE 0
              pully == IF force # 0
                       THEN TDiv(TDiv(TDiv(Val(m.y) * K - p.y, 100) * K, sq) * force, 10 * K)
                       ELSE 0
              vx2 == IF dist # 0 THEN vx1 + pullx ELSE vx1
              vy2 == IF dist # 0 THEN vy1 + pully ELSE vy1
          IN [p EXCEPT !.vx = TDiv(vx2 * (IF m.x # NULL THEN 990 ELSE 998), K),
                       !.vy = TDiv(vy2 * (IF m.y # NULL THEN 990 ELSE 998), K)]
     ELSE [p EXCEPT !.alpha = p.alpha - alphaStep]

\* index.js:108-109
integrate(p) == [p EXCEPT !.x = p.x + p.vx, !.y = p.y + p.vy]

\* vx *= -0.9
Rebound(v) == -TDiv(v * 9, 10)

hitsX(p, cv) == p.x <= 0 \/ p.x >= (cv.width - 1) * K
hitsYInclusive(p, cv) == p.y <= 0 \/ p.y >= cv.height * K
hitsY(p, cv) == p.y < 0 \/ p.y > cv.height * K

\* index.js:111-112
bounce(p, cv) ==
  [p EXCEPT !.vx = IF hitsX(p, cv) THEN Rebound(p.vx) ELSE p.vx,
            !.vy = IF hitsY(p, cv) THEN Rebound(p.vy) ELSE p.vy]

\* index.js:114-115
oscillateLate(p) ==
  LET s == p.size + p.sizeDirection * sizeStep
  IN [p EXCEPT !.size = s,
               !.sizeDirection = IF s > sizeMax + sizeStep \/ s < sizeMin - sizeStep
                                 THEN -p.sizeDirection ELSE p.sizeDirection]
oscillate(p) ==
  LET s == p.size + p.sizeDirection * sizeStep
  IN [p EXCEPT !.size = s,
               !.sizeDirection = IF s > sizeMax \/ s < sizeMin
                                 THEN -p.sizeDirection ELSE p.sizeDirection]

\* how many Math.random() calls one update makes (index.js:91-94)
drawsOf(p, m) == IF ~p.isFirework /\ m.x = NULL /\ autoDrift THEN 2 ELSE 0

\* index.js:85-116  update(mouse) with the generator in state s; the result
\* carries the particle after line 109 (mid), after line 116 (p), and the
\* generator's new state
update(p, m, cv, s) ==
  LET s1 == NextRng(s)
      s2 == NextRng(s1)
      q == integrate(applyForces(p, m, RandOf(s1), RandOf(s2)))
  IN [mid |-> q, p |-> oscillate(bounce(q, cv)), rng |-> s + drawsOf(p, m)]

\* index.js:118-123  draw(ctx): the arc that is filled
draw(p) ==
  [op |-> "arc", id |-> p.id, x |-> p.x, y |-> p.y, size |-> p.size,
   alpha |-> Max(p.alpha, 0)]

\* index.js:125-127
isDeadAtZeroOnly(p) == p.isFirework /\ p.alpha = 0
isDead(p) == p.isFirework /\ p.alpha <= 0

----------------------------------------------------------------------------
(* index.js:153-190  connectParticles *)

gridSize == 120
linkRange == 10000

\* index.js:158, 165-166  Math.floor(p.x / gridSize), Math.floor(p.y / gridSize)
cellOf(p) == << Floor(p.x, gridSize * K), Floor(p.y, gridSize * K) >>

\* index.js:155-161  the Map from keys to buckets: a bucket holds the
\* particles of one cell in collection order; a key `${a},${b}` is held as
\* the pair <<a, b>>
gridOf(ps) ==
  LET cells == [i \in 1..Len(ps) |-> cellOf(ps[i])] \o << >>
      keys == { cells[i] : i \in 1..Len(ps) }
      idx == [key \in keys |->
                SelectSeq([i \in 1..Len(ps) |-> i], LAMBDA i : cells[i] = key)]
  IN [key \in keys |-> [j \in 1..Len(idx[key]) |-> ps[idx[key][j]]]] @@ << >>

\* index.js:168-170  the (dx, dy) pairs in loop order
cellOffsetsForward == << <<0, 0>>, <<0, 1>>, <<1, 0>>, <<1, 1>> >>
cellOffsets ==
  << <<-1, -1>>, <<-1, 0>>, <<-1, 1>>, <<0, -1>>, <<0, 0>>, <<0, 1>>,
     <<1, -1>>, <<1, 0>>, <<1, 1>> >>

\* index.js:174-176  squared distance, evaluated on tenths of a pixel
\* (hundredths of px^2) to stay within 32-bit integers
sqDist(p, n) ==
  LET diffX == TDiv(n.x - p.x, 100)
      diffY == TDiv(n.y - p.y, 100)
  IN diffX * diffX + diffY * diffY

\* index.js:173, 177
linksAny(p, n) == sqDist(p, n) < linkRange * 100
links(p, n) == n.id # p.id /\ sqDist(p, n) < linkRange * 100

\* index.js:178-182  the stroked segment
stroke(p, n) ==
  [op |-> "stroke", from |-> p.id, to |-> n.id,
   x1 |-> p.x, y1 |-> p.y, x2 |-> n.x, y2 |-> n.y,
   alpha |-> K - Sqrt(sqDist(p, n))]

\* index.js:172-185  the strokes from p to the neighbours of one bucket
RECURSIVE strokesIn(_, _, _)
strokesIn(p, b, j) ==
  IF j > Len(b) THEN << >>
  ELSE (IF links(p, b[j]) THEN << stroke(p, b[j]) >> ELSE << >>)
       \o strokesIn(p, b, j + 1)

\* index.js:168-187  the strokes from p over the neighbourhood of its cell
RECURSIVE strokesAround(_, _, _)
strokesAround(grid, p, k) ==
  IF k > Len(cellOffsets) THEN << >>
  ELSE LET key == << cellOf(p)[1] + cellOffsets[k][1],
                     cellOf(p)[2] + cellOffsets[k][2] >>
       IN (IF key \in DOMAIN grid THEN strokesIn(p, grid[key], 1) ELSE << >>)
          \o strokesAround(grid, p, k + 1)

\* index.js:164-189  all strokes, particle by particle (ps[lo..hi])
RECURSIVE strokesFrom(_, _, _, _)
strokesFrom(ps, grid, lo, hi) ==
  IF lo > hi THEN << >>
  ELSE IF lo = hi THEN strokesAround(grid, ps[lo], 1)
  ELSE strokesFrom(ps, grid, lo, (lo + hi) \div 2)
       \o strokesFrom(ps, grid, (lo + hi) \div 2 + 1, hi)

connectParticles(ps) == strokesFrom(ps, gridOf(ps), 1, Len(ps))

----------------------------------------------------------------------------
(* index.js:130-151, 192-201  population and frame driver *)

\* index.js:135  the i-th push of the loop: two Math.random() calls for
\* the position, six in the constructor
pushed(cv, s, id, i) ==
  LET s0 == s + 8 * (i - 1)
  IN Particle(id + i - 1, (RandOf(s0 + 1) * cv.width * K) \div R,
                          (RandOf(s0 + 2) * cv.height * K) \div R, FALSE,
              [speed |-> RandOf(s0 + 3), ax |-> RandOf(s0 + 4),
               ay |-> RandOf(s0 + 5), size |-> RandOf(s0 + 6),
               gray |-> RandOf(s0 + 7), dir |-> RandOf(s0 + 8)])

\* index.js:134-136  n pushes onto ps
pushParticles(ps, cv, s, id, n) ==
  [particles |-> ps \o [i \in 1..n |-> pushed(cv, s, id, i)],
   rng |-> s + 8 * n,
   nextId |-> id + n]

\* index.js:130-137  createParticles on the collection ps
createParticlesKeep(ps, cv, s, id) ==
  pushParticles(ps, cv, s, id, adjustParticleCount(cv))
createParticles(ps, cv, s, id) ==
  pushParticles(<< >>, cv, s, id, adjustParticleCount(cv))

\* index.js:145-151
drawBackground(cv) ==
  [op |-> "drawBackground", w |-> cv.width, h |-> cv.height]

\* index.js:195-196  p.update(mouse); p.draw(ctx) on particle p, which
\* update turns into q
stepOpsDrawFirst(p, q) == << draw(p), [op |-> "update", id |-> p.id] >>
stepOps(p, q) == << [op |-> "update", id |-> p.id], draw(q) >>

\* Math.random() calls made by the updates of ps[1..i-1]
drawsBefore(ps, m, i) ==
  2 * Cardinality({ j \in 1..(i - 1) : drawsOf(ps[j], m) = 2 })

\* index.js:192-201  animate(); the result carries the new collection, the
\* generator, and the calls made in order.  update reads only its own
\* particle, the cursor, the canvas and the generator, so particle i is
\* updated from the generator state its predecessors left.
animate(ps, m, cv, s) ==
  LET n == Len(ps)
      qs == [i \in 1..n |-> update(ps[i], m, cv, s + drawsBefore(ps, m, i)).p] \o << >>
      each == [k \in 1..(2 * n) |->
                 stepOps(ps[(k + 1) \div 2], qs[(k + 1) \div 2])[2 - (k % 2)]]
  IN [particles |-> qs,
      rng |-> s + drawsBefore(ps, m, n + 1),
      ops |-> << drawBackground(cv) >> \o each
              \o << [op |-> "connectParticles"] >>
              \o connectParticles(qs)
              \o << [op |-> "frameCount++"],
                    [op |-> "requestAnimationFrame"] >>]

----------------------------------------------------------------------------
(* Environment: what the host still delivers *)

CanSpend(k) == budget[k] # 0
Spend(k) == [budget EXCEPT ![k] = IF @ > 0 THEN @ - 1 ELSE @]

\* the system-level state that a one-particle study leaves alone
Idle == UNCHANGED <<frameCount, pending, nextId, trace, numParticles, ticks>>

----------------------------------------------------------------------------
(* One particle under update calls and pointer events *)

PCanvas == [width |-> 40, height |-> 32]
\* clientX, clientY of a pointer event
PointerPlaces == { [clientX |-> 0, clientY |-> 0], [clientX |-> 30, clientY |-> 20] }

outsideX(p, cv) == p.x < 0 \/ p.x > cv.width * K
outsideY(p, cv) == p.y < 0 \/ p.y > cv.height * K

\* a particle as createParticles (index.js:135) or a burst would build it,
\* each Math.random() result drawn from the given set
ParticleInit(kinds, rxs, rys, speeds, axs, ays, sizes, dirs, b) ==
  /\ canvas = PCanvas
  /\ \E fw \in kinds, rx \in rxs, ry \in rys, sp \in speeds, ax \in axs,
        ay \in ays, sz \in sizes, d \in dirs :
       particles = << Particle(1, (rx * canvas.width * K) \div R,
                                  (ry * canvas.height * K) \div R, fw,
                                  [speed |-> sp, ax |-> ax, ay |-> ay,
                                   size |-> sz, gray |-> 0, dir |-> d]) >>
  /\ mouse = mouseInit
  /\ rng = 1
  /\ mid = particles[1]
  /\ updates = 0
  /\ outRun = [x |-> 0, y |-> 0]
  /\ budget = b
  /\ event = "init"
  /\ frameCount = 0 /\ pending = 0 /\ nextId = 1 /\ trace = << >>
  /\ ticks = 0
  /\ numParticles = 0

\* one call p.update(mouse) (index.js:195)
UpdateParticle ==
  /\ CanSpend("frame")
  /\ LET u == update(particles[1], mouse, canvas, rng)
     IN /\ particles' = << u.p >>
        /\ mid' = u.mid
        /\ rng' = u.rng
        /\ outRun' = [x |-> IF outsideX(u.p, canvas) THEN Min(outRun.x + 1, 3) ELSE 0,
                      y |-> IF outsideY(u.p, canvas) THEN Min(outRun.y + 1, 3) ELSE 0]
  /\ updates' = updates + 1
  /\ budget' = Spend("frame")
  /\ event' = "update"
  /\ UNCHANGED canvas /\ UNCHANGED mouse /\ Idle

\* index.js:203-205
MouseMove ==
  /\ CanSpend("pointer")
  /\ \E e \in PointerPlaces :
       mouse' = mouseSet(mouse, [x |-> Num(e.clientX), y |-> Num(e.clientY)])
  /\ budget' = Spend("pointer")
  /\ event' = "mousemove"
  /\ UNCHANGED <<canvas, particles, rng, mid, updates, outRun>> /\ Idle

\* index.js:207-209
MouseLeave ==
  /\ CanSpend("pointer")
  /\ mouse' = mouseReset(mouse)
  /\ budget' = Spend("pointer")
  /\ event' = "mouseleave"
  /\ UNCHANGED <<canvas, particles, rng, mid, updates, outRun>> /\ Idle

NextParticle == UpdateParticle \/ MouseMove \/ MouseLeave

\* short runs from many starting particles
MaxUpdates == 5
MaxPointerEvents == 2
InitParticle ==
  ParticleInit(BOOLEAN, {1, 512, 1023}, {64, 512, 960}, {0, 1023},
               {0, 512}, {256, 768}, {0, 1023}, {0, 1023},
               [pointer |-> MaxPointerEvents, resize |-> 0, frame |-> MaxUpdates])
SpecParticle == InitParticle /\ [][NextParticle]_vars

\* whole lives of a few particles
LifeUpdates == 64
LifePointerEvents == 1
InitLife ==
  ParticleInit(BOOLEAN, {512}, {512}, {512}, {0}, {256}, {0, 500, 1023},
               {0, 1023},
               [pointer |-> LifePointerEvents, resize |-> 0, frame |-> LifeUpdates])
SpecLife == InitLife /\ [][NextParticle]_vars

----------------------------------------------------------------------------
(* Claims about one particle *)

TheParticle == particles[1]

\* C3 as stated: an ambient particle's size is within [1, 4] after any
\* number of update calls.
C3_SizeInBounds ==
  ~TheParticle.isFirework =>
     sizeMin <= TheParticle.size /\ TheParticle.size <= sizeMax

\* C3 amended: an ambient particle's size stays within [0.9, 4.1]; it leaves
\* [1, 4] by at most one step of 0.1, and then sizeDirection points back in.
C3_SizeWithinOneStep ==
  ~TheParticle.isFirework =>
     /\ sizeMin - sizeStep <= TheParticle.size
     /\ TheParticle.size <= sizeMax + sizeStep
     /\ TheParticle.size > sizeMax => TheParticle.sizeDirection = -1
     /\ TheParticle.size < sizeMin => TheParticle.sizeDirection = 1

\* C3 witness: an ambient particle that an update has carried above 4
C3_Overshoot ==
  /\ ~TheParticle.isFirework
  /\ updates > 0
  /\ TheParticle.size > sizeMax

\* C4: a firework's alpha drops by 0.02 in every update and never otherwise
\* changes; isDead() holds exactly when alpha <= 0, which is exactly from the
\* 50th update on; an ambient particle is never dead.
C4_FireworkLife ==
  /\ [](TheParticle.isFirework =>
          /\ isDead(TheParticle) <=> TheParticle.alpha <= 0
          /\ isDead(TheParticle) <=> updates >= 50
          /\ TheParticle.alpha = K - updates * 20)
  /\ [](~TheParticle.isFirework => ~isDead(TheParticle) /\ TheParticle.alpha = K)
  /\ [][TheParticle.isFirework => TheParticle'.alpha <= TheParticle.alpha]_vars

\* C4 witness: a firework past its 50th update, dead, alpha below zero
C4_DeadFirework ==
  /\ TheParticle.isFirework
  /\ updates > 50
  /\ TheParticle.alpha < 0
  /\ isDead(TheParticle)

\* the velocity component v after a bounce decision
Bounced(hit, v) == IF hit THEN -TDiv(v * 9, 10) ELSE v

\* C7 as stated: after the position is integrated, vx is multiplied by -0.9
\* exactly when x <= 0 or x >= width - 1, and vy exactly when y <= 0 or
\* y >= height.
C7_BounceInclusive ==
  updates > 0 =>
    /\ TheParticle.x = mid.x /\ TheParticle.y = mid.y
    /\ TheParticle.vx =
         Bounced(mid.x <= 0 \/ mid.x >= (canvas.width - 1) * K, mid.vx)
    /\ TheParticle.vy =
         Bounced(mid.y <= 0 \/ mid.y >= canvas.height * K, mid.vy)

\* C7 amended: vx is multiplied by -0.9 exactly when x <= 0 or
\* x >= width - 1; vy is multiplied by -0.9 exactly when y < 0 or y > height
\* (y equal to 0 or to height leaves vy alone); each axis on its own.
C7_BounceStrictY ==
  updates > 0 =>
    /\ TheParticle.x = mid.x /\ TheParticle.y = mid.y
    /\ TheParticle.vx =
         Bounced(mid.x <= 0 \/ mid.x >= (canvas.width - 1) * K, mid.vx)
    /\ TheParticle.vy =
         Bounced(mid.y < 0 \/ mid.y > canvas.height * K, mid.vy)

\* C7 witness: a corner hit, both components inverted and damped
C7_CornerHit ==
  /\ updates > 0
  /\ mid.x <= 0 /\ mid.y < 0
  /\ mid.vx < 0 /\ mid.vy < 0
  /\ TheParticle.vx > 0 /\ TheParticle.vy > 0

\* C8 as stated: a particle that starts inside the canvas (here an ambient
\* one, as createParticles builds them) is never outside the canvas on the
\* same axis at the end of two consecutive updates.
C8_BriefExcursion ==
  ~TheParticle.isFirework => outRun.x < 2 /\ outRun.y < 2

----------------------------------------------------------------------------
(* adjustParticleCount applied to canvas sizes around every threshold *)

DimMargin == 1

Around(conds) ==
  { conds[i] + d : i \in 1..Len(conds), d \in (0 - DimMargin)..DimMargin }
HeightInputs == {0, 150, 250, 700} \cup Around(heightConditions)
WidthInputs == {0, 300, 400, 800, 1700} \cup Around(widthConditions)

InitCount ==
  /\ canvas \in [width : WidthInputs, height : HeightInputs]
  /\ numParticles = 0
  /\ event = "init"
  /\ particles = << >> /\ mouse = mouseInit /\ rng = 1 /\ mid = << >>
  /\ updates = 0 /\ outRun = [x |-> 0, y |-> 0]
  /\ budget = [pointer |-> 0, resize |-> 0, frame |-> 0]
  /\ frameCount = 0 /\ pending = 0 /\ nextId = 1 /\ trace = << >>
  /\ ticks = 0

\* index.js:132  const numParticles = adjustParticleCount()
AdjustCall ==
  /\ event = "init"
  /\ numParticles' = adjustParticleCount(canvas)
  /\ event' = "adjust"
  /\ UNCHANGED <<canvas, particles, mouse, rng, mid, updates, outRun, budget,
                 frameCount, pending, nextId, trace, ticks>>

SpecCount == InitCount /\ [][AdjustCall]_vars

\* the tables of the specification, written out
TableH(h) ==
  IF h < 200 THEN 40 ELSE IF h < 300 THEN 60 ELSE IF h < 400 THEN 70
  ELSE IF h < 500 THEN 90 ELSE IF h < 600 THEN 110 ELSE 130
TableW(w) ==
  IF w < 450 THEN 40 ELSE IF w < 600 THEN 50 ELSE IF w < 900 THEN 70
  ELSE IF w < 1200 THEN 90 ELSE 110

\* C1: adjustParticleCount returns min(H, W), H from the height table
\* (130 from 600 up), W from the width table (no clamp from 1600 up); e.g.
\* (h 150, w 300) -> 40, (h 250, w 800) -> 60, (h 700, w 400) -> 40.
C1_CountIsMinOfTables ==
  event = "adjust" =>
    /\ numParticles = IF canvas.width >= 1600 THEN TableH(canvas.height)
                      ELSE Min(TableH(canvas.height), TableW(canvas.width))
    /\ canvas = [width |-> 300, height |-> 150] => numParticles = 40
    /\ canvas = [width |-> 800, height |-> 250] => numParticles = 60
    /\ canvas = [width |-> 400, height |-> 700] => numParticles = 40

\* C1 witness: a tall, narrow canvas whose count the width table clamps
C1_ClampedByWidth ==
  /\ event = "adjust"
  /\ canvas = [width |-> 400, height |-> 700]
  /\ numParticles = 40

----------------------------------------------------------------------------
(* connectParticles applied to small particle configurations *)

LinkN == 3
LinkXs == {-130, -50, 0, 50, 119, 150, 260}
LinkYs == {-20, 0, 70}

\* a particle at whole-pixel position (x, y); only id and position matter
ParticleAt(id, x, y) ==
  [Particle(id, x * K, y * K, FALSE,
            [speed |-> 0, ax |-> 0, ay |-> 0, size |-> 0, gray |-> 0,
             dir |-> 0]) EXCEPT !.vx = 0, !.vy = 0]

InitLink ==
  /\ canvas = [width |-> 300, height |-> 150]
  /\ \E xs \in [1..LinkN -> LinkXs], ys \in [1..LinkN -> LinkYs] :
       particles = [i \in 1..LinkN |-> ParticleAt(i, xs[i], ys[i])]
  /\ trace = << >>
  /\ event = "init"
  /\ mouse = mouseInit /\ rng = 1 /\ mid = << >> /\ numParticles = 0
  /\ updates = 0 /\ outRun = [x |-> 0, y |-> 0]
  /\ budget = [pointer |-> 0, resize |-> 0, frame |-> 0]
  /\ frameCount = 0 /\ pending = 0 /\ nextId = LinkN + 1 /\ ticks = 0

\* index.js:198  connectParticles()
ConnectCall ==
  /\ event = "init"
  /\ trace' = connectParticles(particles)
  /\ event' = "connect"
  /\ UNCHANGED <<canvas, particles, mouse, rng, mid, updates, outRun, budget,
                 frameCount, pending, nextId, numParticles, ticks>>

SpecLink == InitLink /\ [][ConnectCall]_vars

\* brute force: particles i and j, distinct, less than 100 px apart
PxSq(i, j) ==
  LET ax == particles[i].x \div K  ay == particles[i].y \div K
      bx == particles[j].x \div K  by == particles[j].y \div K
  IN (ax - bx) * (ax - bx) + (ay - by) * (ay - by)
InRange(i, j) == i # j /\ PxSq(i, j) < 10000
Drawn(i, j) == { k \in 1..Len(trace) : trace[k].from = i /\ trace[k].to = j }
At(i, x, y) == particles[i].x = x * K /\ particles[i].y = y * K

\* C5: the linked pairs are exactly the pairs of distinct particles with
\* squared distance below 10000, negative coordinates included; (0,0) and
\* (50,0) are linked, with stroke alpha 0.5; (0,0) and (150,0) are not.
C5_GridEqualsBruteForce ==
  event = "connect" =>
    /\ \A i, j \in 1..LinkN : (Drawn(i, j) # {}) <=> InRange(i, j)
    /\ At(1, 0, 0) /\ At(2, 50, 0) =>
         \E k \in Drawn(1, 2) : trace[k].alpha = 500
    /\ At(1, 0, 0) /\ At(2, 150, 0) => Drawn(1, 2) = {}

\* C5 witness: an in-range pair that straddles a cell border at negative
\* coordinates, found and linked
C5_LinkedAcrossCells ==
  /\ event = "connect"
  /\ At(1, -50, -20) /\ At(2, 0, 0)
  /\ Drawn(1, 2) # {} /\ Drawn(2, 1) # {}

\* C10: every in-range unordered pair is drawn exactly twice, once from
\* each endpoint, and no particle is linked to itself.
C10_EachPairTwice ==
  event = "connect" =>
    /\ \A i, j \in 1..LinkN :
         InRange(i, j) => Cardinality(Drawn(i, j)) = 1
                          /\ Cardinality(Drawn(j, i)) = 1
    /\ \A k \in 1..Len(trace) : trace[k].from # trace[k].to
    /\ Len(trace) = Cardinality({ pr \in (1..LinkN) \X (1..LinkN) :
                                   InRange(pr[1], pr[2]) })

\* C10 witness: two particles at the same position, each linked to the
\* other once
C10_SamePlaceTwice ==
  /\ event = "connect"
  /\ particles[1].x = particles[2].x /\ particles[1].y = particles[2].y
  /\ Cardinality(Drawn(1, 2)) = 1 /\ Cardinality(Drawn(2, 1)) = 1

----------------------------------------------------------------------------
(* The whole page: startup, then resize, pointer and frame events *)

MaxResizes == 1
MaxFrames == 2
\* window.innerWidth, window.innerHeight: 130 particles, 40 by the width
\* table, 40 by the height table
WindowSizes ==
  { [width |-> 1700, height |-> 700], [width |-> 400, height |-> 700],
    [width |-> 1700, height |-> 150] }
Seeds == {1}

\* index.js:213-214  resizeCanvas(); animate();
Init ==
  \E cv \in WindowSizes, seed \in Seeds :
    LET c == createParticles(<< >>, cv, seed, 1)
        a == animate(c.particles, mouseInit, cv, c.rng)
    IN /\ canvas = cv
       /\ particles = a.particles
       /\ rng = a.rng
       /\ nextId = c.nextId
       /\ trace = a.ops
       /\ mouse = mouseInit
       /\ frameCount = 1
       /\ pending = 1
       /\ ticks = 1
       /\ event = "animate"
       /\ numParticles = Len(c.particles)
       /\ mid = << >> /\ updates = 0 /\ outRun = [x |-> 0, y |-> 0]
       /\ budget = [pointer |-> -1, resize |-> MaxResizes, frame |-> MaxFrames]

\* index.js:139-143, 211  the resize listener; assigning canvas.width
\* clears the surface
Resize ==
  /\ CanSpend("resize")
  /\ \E cv \in WindowSizes :
       LET c == createParticles(particles, cv, rng, nextId)
       IN /\ canvas' = cv
          /\ particles' = c.particles
          /\ rng' = c.rng
          /\ nextId' = c.nextId
          /\ numParticles' = Len(c.particles)
  /\ trace' = << >>
  /\ budget' = Spend("resize")
  /\ event' = "resize"
  /\ UNCHANGED <<mouse, frameCount, pending, ticks, mid, updates, outRun>>

\* index.js:192-201  the host runs a requested animate callback
Tick ==
  /\ pending > 0
  /\ CanSpend("frame")
  /\ LET a == animate(particles, mouse, canvas, rng)
     IN /\ particles' = a.particles
        /\ rng' = a.rng
        /\ trace' = a.ops
  /\ frameCount' = frameCount + 1
  /\ pending' = (pending - 1) + 1
  /\ ticks' = ticks + 1
  /\ budget' = Spend("frame")
  /\ event' = "animate"
  /\ UNCHANGED <<canvas, mouse, nextId, numParticles, mid, updates, outRun>>

Next == Resize \/ Tick \/ MouseMove \/ MouseLeave

Spec == Init /\ [][Next]_vars

----------------------------------------------------------------------------
(* Claims about the whole page *)

Ids(ps) == { ps[i].id : i \in 1..Len(ps) }

\* C2: the collection always holds exactly the count for the current canvas
\* size, all ambient with alpha 1; a resize replaces every particle by a new
\* one (same length when the size is unchanged); frame ticks and pointer
\* events neither add nor remove particles.
C2_PopulationMatchesCanvas ==
  /\ [](/\ Len(particles) =
             (IF canvas.width >= 1600 THEN TableH(canvas.height)
              ELSE Min(TableH(canvas.height), TableW(canvas.width)))
        /\ \A i \in 1..Len(particles) :
             ~particles[i].isFirework /\ particles[i].alpha = K)
  /\ [][/\ event' = "resize" =>
             /\ Ids(particles') \cap Ids(particles) = {}
             /\ Cardinality(Ids(particles')) = Len(particles')
             /\ canvas' = canvas => Len(particles') = Len(particles)
        /\ event' # "resize" =>
             /\ Len(particles') = Len(particles)
             /\ \A i \in 1..Len(particles) : particles'[i].id = particles[i].id
       ]_vars

\* C2 witness: a resize to a smaller window has replaced a population of
\* 130 by one of 40, and a frame has run since
C2_Repopulated ==
  /\ nextId = 1 + 130 + 40
  /\ Len(particles) = 40
  /\ event = "animate"

\* C6: the cursor is always wholly present or wholly absent; a pointer move
\* sets both coordinates, a pointer leave clears both, and frame ticks and
\* resizes leave the cursor alone.
C6_CursorWhole ==
  /\ []((mouse.x = NULL) <=> (mouse.y = NULL))
  /\ [][/\ event' = "mousemove" => mouse'.x # NULL /\ mouse'.y # NULL
        /\ event' = "mouseleave" => mouse'.x = NULL /\ mouse'.y = NULL
        /\ event' \in {"animate", "resize"} => mouse' = mouse
       ]_vars

\* C6 witness: a frame has run with the cursor present at (0, 0)
C6_CursorAtOrigin ==
  /\ mouse = [x |-> Num(0), y |-> Num(0)]
  /\ event = "animate"
  /\ frameCount > 1

\* C9: a tick is: background; for each particle in collection order,
\* update then draw (the arc shows the updated particle); the linker once,
\* its strokes between updated positions; frameCount++ once; one request.
\* At most one tick is pending and frameCount counts the completed ticks.
C9_TickOrder ==
  LET n == Len(particles)
      m == Len(trace)
      AtPlace(id, x, y) ==
        \E i \in 1..n : particles[i].id = id /\ particles[i].x = x
                        /\ particles[i].y = y
  IN /\ pending = 1
     /\ frameCount = ticks
     /\ trace # << >> =>
          /\ m >= 2 * n + 4
          /\ trace[1].op = "drawBackground"
          /\ \A i \in 1..n :
               /\ trace[2 * i] = [op |-> "update", id |-> particles[i].id]
               /\ trace[2 * i + 1].op = "arc"
               /\ trace[2 * i + 1].id = particles[i].id
               /\ trace[2 * i + 1].x = particles[i].x
               /\ trace[2 * i + 1].y = particles[i].y
               /\ trace[2 * i + 1].size = particles[i].size
          /\ trace[2 * n + 2].op = "connectParticles"
          /\ \A k \in (2 * n + 3)..(m - 2) :
               /\ trace[k].op = "stroke"
               /\ AtPlace(trace[k].from, trace[k].x1, trace[k].y1)
               /\ AtPlace(trace[k].to, trace[k].x2, trace[k].y2)
          /\ trace[m - 1].op = "frameCount++"
          /\ trace[m].op = "requestAnimationFrame"

\* C9 witness: a third tick has completed, with the cursor present, and
\* the linker has drawn something
C9_ThirdTick ==
  /\ frameCount = 3
  /\ mouse.x # NULL
  /\ \E k \in 1..Len(trace) : trace[k].op = "stroke"

====
